---- MODULE Spec2Model ----
(***************************************************************************)
(* Practice-Pal: the adaptive tempo controller (PracticeSessionManager),   *)
(* the bounded performance window, the metronome context and scheduler     *)
(* (MetronomeContext / MetronomeComponent) and the onset detector          *)
(* (RhythmAnalysis), as state machines.                                    *)
(*                                                                         *)
(* Each React event handler is one action.  The state updates a handler    *)
(* queues, the re-render and the effects whose dependencies changed are    *)
(* part of the handler's action.  The one exception is the adaptive tempo  *)
(* effect of PracticeSessionManager: it writes one of its own dependencies *)
(* (actualTempo), so each of its runs is an action of its own, enabled     *)
(* while one of its dependencies has changed since its last run            *)
(* (adaptiveDirty).  React flushes the pending effects of a render before  *)
(* it handles the next event, so the handlers of the home page wait for    *)
(* adaptiveDirty to clear.                                                 *)
(***************************************************************************)
EXTENDS Integers, Sequences, FiniteSets, TLC

VARIABLES
  page,                 \* the component tree that is mounted: "home" (HomePage with
                        \* PracticeSessionManager), "practice" (PracticePage under
                        \* MetronomeProvider), "hook" (a component using useBoundedArray),
                        \* "rhythm" (RhythmAnalysis), "pitch" (the PitchDetection fed
                        \* by the audioData prop), "pitchloop" (the PitchDetection
                        \* with its own analyser and detectPitch loop)
  \* ---- App / HomePage / PracticeSessionManager ("home")
  tempo,                \* App: const [tempo, setTempo] = useState(120)
  metronomeTempo,       \* HomePage: const [metronomeTempo, ...] = useState(tempo)
  isRecording,          \* App: isRecording
  currentSession,       \* PracticeSessionManager: currentSession !== null
  adaptiveTempoEnabled, \* PracticeSessionManager
  currentTargetTempo,   \* PracticeSessionManager
  actualTempo,          \* PracticeSessionManager
  performanceHistory,   \* PracticeSessionManager: boolean[]
  adaptiveDirty,        \* a dependency of the adaptive tempo effect changed
  \* ---- useBoundedArray
  boundedArr,           \* the hook's arr
  \* ---- environment bookkeeping
  tempoInputs,          \* tempo button / slider inputs made so far
  latestRhythmEvent,    \* HomePage: const [latestRhythmEvent, ...] = useState(null)
  sessionRhythmEvents,  \* PracticeSessionManager: currentSession.rhythmEvents
  eventsDelivered,      \* onsets RhythmAnalysis has reported to HomePage so far
  offBeatPushed,        \* off-beat values pushed so far
  pushLog,              \* every value pushed since the window was last cleared
  boundedLog,           \* every value pushed into boundedArr
  lastOp,               \* the handler or effect that ran last, and actualTempo before it
  \* ---- PracticePage ("practice")
  stage,                \* 'setup' | 'running' | 'finished'; "away" once navigate('/') ran
  setupData,            \* SessionSetupData | null
  paused,               \* PracticePage: paused
  pitchAcc,             \* PracticePage: the last 8 entries of pitchAcc
  \* ---- MetronomeContext
  ctxTempo,             \* MetronomeProvider: const [tempo, setTempo] = useState(80)
  isPlaying,            \* MetronomeProvider: isPlaying
  startEpoch,           \* MetronomeProvider: startEpoch (Null, or ms of wall clock)
  \* ---- AudioContext and MetronomeComponent
  audioContext,         \* AudioProvider: audioContext !== null
  currentTime,          \* audioContext.currentTime, in ms
  nextNoteTimeRef,      \* nextNoteTimeRef.current, in ms multiplied by ctxTempo
  audioLoopBeatRef,     \* audioLoopBeatRef.current
  schedulerTimerRef,    \* schedulerTimerRef.current !== null: a frame is requested
  strayFrames,          \* requested scheduler frames, neither run nor cancelled,
                        \* whose id schedulerTimerRef no longer holds
  hasStartedRef,        \* hasStartedRef.current
  \* ---- environment bookkeeping of the practice page
  sampleDue,            \* 50 ms have passed since the interval's last callback
  samplesTaken,         \* accuracy samples drawn so far
  lowSamples,           \* low accuracy samples drawn so far
  playClicks,           \* clicks on the metronome's Start/Stop button so far
  sessions,             \* sessions started so far
  tempoRequest,         \* the tempo asked of the last tempo control used or session
                        \* start, before the control's own Math.max / Math.min
  run,                  \* the playback run: its tempo at the start, its start
                        \* notifications, its committed beats, the times of the first and
                        \* the last one (ms multiplied by the tempo), whether the tempo
                        \* stayed constant
  \* ---- RhythmAnalysis ("rhythm")
  isRecordingProp,      \* props.isRecording
  isPlayingProp,        \* props.isPlaying
  metronomeStartTime,   \* metronomeStartTime.current (Null, or ms of wall clock)
  audioRms,             \* calculateRMS(audioData) of the current frame, in 1/10000
  now,                  \* Date.now(), in ms
  lastProcessedTime,    \* lastProcessedTime.current
  prevRMSRef,           \* prevRMSRef.current, in 1/10000
  adaptiveThresholdRef, \* adaptiveThresholdRef.current, in 1/10000
  lastOnsetTime,        \* lastOnsetTime.current (Null, or ms)
  framesSeen,           \* audio frames delivered so far
  propChanges,          \* changes of the props other than audioData so far
  candidateLog,         \* the times of the candidate onsets so far
  onsetLog,             \* the times of the onsets handed to analyzeOnset so far
  tempoProp,            \* props.tempo; beatInterval.current is 60000 / tempoProp
  epochTempo,           \* the tempo at which the scheduler established the epoch
  beatHistory,          \* RhythmAnalysis: beatHistory, newest first
  rhythmScore,          \* RhythmAnalysis: rhythmScore, in percent
  rhythmEvents,         \* the events handed to onRhythmEvent so far
  \* ---- PitchDetection ("pitch")
  pitchRecording,       \* props.isRecording
  frequencyBuffer,      \* frequencyBufferRef.current
  noteBuffer,           \* noteBufferRef.current
  detectedNote,         \* detectedNote ("--" when none)
  detectedFrequency,    \* detectedFrequency (Null, or Hz)
  centsDeviation,       \* centsDeviation (NoCents, or cents)
  confidenceLevel,      \* confidenceLevel, in percent
  lastPitchEvent,       \* the last sample handed to onPitchDetected (NoPitchEvent
                        \* before the first)
  lastFrame,            \* the audio frame processed last (NoFrame before the first)
  pitchFrames           \* audio frames processed so far

ctlVars == <<tempo, metronomeTempo, isRecording, currentSession,
             adaptiveTempoEnabled, currentTargetTempo, actualTempo,
             performanceHistory, adaptiveDirty>>
envVars == <<tempoInputs, offBeatPushed, pushLog, boundedLog>>
pageVars == <<stage, setupData, paused, pitchAcc>>
metVars == <<ctxTempo, isPlaying, startEpoch>>
schedVars == <<nextNoteTimeRef, audioLoopBeatRef, schedulerTimerRef, hasStartedRef,
               strayFrames>>
pracEnv == <<sampleDue, samplesTaken, lowSamples, playClicks, sessions>>
pracVars == <<pageVars, metVars, audioContext, currentTime, schedVars, pracEnv, run>>
rhythmVars == <<isRecordingProp, isPlayingProp, metronomeStartTime, audioRms, now,
                lastProcessedTime, prevRMSRef, adaptiveThresholdRef, lastOnsetTime,
                framesSeen, propChanges, candidateLog, onsetLog,
                tempoProp, epochTempo, beatHistory, rhythmScore, rhythmEvents>>
pitchVars == <<pitchRecording, frequencyBuffer, noteBuffer, detectedNote,
               detectedFrequency, centsDeviation, confidenceLevel, lastPitchEvent,
               lastFrame, pitchFrames>>
eventVars == <<latestRhythmEvent, sessionRhythmEvents, eventsDelivered>>
homeVars == <<ctlVars, boundedArr, offBeatPushed, pushLog, boundedLog, lastOp, eventVars>>
vars == <<page, ctlVars, boundedArr, envVars, lastOp, eventVars, pracVars, tempoRequest, rhythmVars,
          pitchVars>>

Op(name) == [op |-> name, actualBefore |-> actualTempo]

(***************************************************************************)
(* Bounds of the model.                                                    *)
(***************************************************************************)
MaxTempoInputs == 1     \* tempo button presses and slider moves in a run
MaxOffBeat == 3         \* off-beat onsets the player produces in a run
MaxPushes == 17         \* pushes between two clears of the window
BoundedMaxLength == 3   \* the maxLength useBoundedArray is instantiated with
MaxBoundedPushes == 5   \* pushes into the bounded array
MaxRhythmEvents == 2    \* classified onsets reported to HomePage in a run
OnsetSpacing == 500     \* ms between the timestamps of two reported onsets

(***************************************************************************)
(* Program constants.                                                      *)
(***************************************************************************)
AppInitialTempo == 120
MinTempo == 40
MaxTempo == 240
TempoButtonStep == 5
PERFORMANCE_HISTORY_LENGTH == 16
accuracyThresholdIncrease == 85   \* 0.85, in percent
accuracyThresholdDecrease == 65   \* 0.65, in percent
increaseStep == 1
decreaseStep == 2
TargetBand == 10
AdaptiveTempoCap == 200

\* The values the range input (min=40, max=240) is moved to in this model.
SliderTempos == {MinTempo, MinTempo + TempoButtonStep, AdaptiveTempoCap - TempoButtonStep, MaxTempo}

DuplicateWindow == 10   \* Math.abs(lastEvent.timestamp - latest.timestamp) > 10
NoRhythmEvent == [timestamp |-> 0 - 1, isOnBeat |-> FALSE]   \* useState(null)

Min(a, b) == IF a < b THEN a ELSE b
Dist(a, b) == IF a < b THEN b - a ELSE a - b   \* Math.abs(a - b)
Max(a, b) == IF a > b THEN a ELSE b

(***************************************************************************)
(* The bounded window.                                                     *)
(***************************************************************************)
\* [...prev, item]; if (next.length > maxLength) next.shift()
BoundedPush(prev, item, maxLength) ==
  LET next == Append(prev, item)
  IN  IF Len(next) > maxLength THEN Tail(next) ELSE next

\* a window that drops its newest entry instead of its oldest (next.pop())
pushPerformanceDropNewest(prev, onBeat) ==
  LET next == Append(prev, onBeat)
  IN  IF Len(next) > PERFORMANCE_HISTORY_LENGTH
      THEN SubSeq(next, 1, Len(next) - 1) ELSE next

\* pushPerformance: the same, with PERFORMANCE_HISTORY_LENGTH
pushPerformance(prev, onBeat) ==
  BoundedPush(prev, onBeat, PERFORMANCE_HISTORY_LENGTH)

\* the last n elements of s (s itself when it is shorter)
LastN(s, n) == IF Len(s) <= n THEN s ELSE SubSeq(s, Len(s) - n + 1, Len(s))

(***************************************************************************)
(* PracticeSessionManager: the adaptive tempo controller.                  *)
(***************************************************************************)
\* relevantHistory.filter(onBeat => onBeat).length
RECURSIVE onTimeCount(_)
onTimeCount(h) ==
  IF h = <<>> THEN 0 ELSE (IF Head(h) THEN 1 ELSE 0) + onTimeCount(Tail(h))

\* accuracy >= pct/100, for accuracy = count / len.  With len <= 16 the
\* quotient is never equal to 0.85 or 0.65, so the comparison of the
\* floating-point quotient and this one of integers agree.
AccuracyAtLeast(h, pct) ==
  IF Len(h) > 0 THEN 100 * onTimeCount(h) >= pct * Len(h) ELSE TRUE

\* const maxTempo = Math.min(currentTargetTempo + 10, 200)
maxTempoOf(target) == Min(target + TargetBand, AdaptiveTempoCap)
\* a floor for the controller without the lower limit of the range
minTempoOfUnclamped(target) == target - TargetBand
\* const minTempo = Math.max(currentTargetTempo - 10, 40)
minTempoOf(target) == Max(target - TargetBand, MinTempo)

\* newActualTempo of one run of the adaptive tempo effect
newActualTempo(history, actual, target) ==
  LET relevantHistory == LastN(history, PERFORMANCE_HISTORY_LENGTH)
  IN  IF AccuracyAtLeast(relevantHistory, accuracyThresholdIncrease)
         /\ actual < maxTempoOf(target)
      THEN Min(maxTempoOf(target), actual + increaseStep)
      ELSE IF ~AccuracyAtLeast(relevantHistory, accuracyThresholdDecrease)
              /\ actual > minTempoOf(target)
      THEN Max(minTempoOf(target), actual - decreaseStep)
      ELSE actual

\* a guard that does not look at the length of the window
AdaptiveActiveAnyWindow ==
  /\ adaptiveTempoEnabled
  /\ isRecording

\* the guard of the effect: it returns early unless this holds
AdaptiveActive ==
  /\ adaptiveTempoEnabled
  /\ isRecording
  /\ 2 * Len(performanceHistory) >= PERFORMANCE_HISTORY_LENGTH

\* HomePage.handleActualTempoChange: setMetronomeTempo(newTempo)
handleActualTempoChange(newTempo) == metronomeTempo' = newTempo

\* what the toggle does to the window and the tempi when it is switched off
\* without telling the scheduler
ToggleOffResetSilent ==
  /\ actualTempo' = tempo
  /\ currentTargetTempo' = tempo
  /\ UNCHANGED metronomeTempo
  /\ performanceHistory' = <<>>

\* if (!checked) { setActualTempo(tempo); setCurrentTargetTempo(tempo);
\*                 onActualTempoChange(tempo); setPerformanceHistory([]) }
ToggleOffReset ==
  /\ actualTempo' = tempo
  /\ currentTargetTempo' = tempo
  /\ handleActualTempoChange(tempo)
  /\ performanceHistory' = <<>>

\* else { setCurrentTargetTempo(tempo); setActualTempo(tempo);
\*        setPerformanceHistory([]) }
ToggleOnReset ==
  /\ currentTargetTempo' = tempo
  /\ actualTempo' = tempo
  /\ UNCHANGED metronomeTempo
  /\ performanceHistory' = <<>>

\* One run of the adaptive tempo effect.
AdaptiveTempoEffect ==
  /\ page = "home"
  /\ adaptiveDirty
  /\ IF AdaptiveActive
        /\ newActualTempo(performanceHistory, actualTempo, currentTargetTempo) # actualTempo
     THEN /\ actualTempo' = newActualTempo(performanceHistory, actualTempo, currentTargetTempo)
          /\ handleActualTempoChange(actualTempo')
          /\ adaptiveDirty' = TRUE     \* actualTempo is a dependency of the effect
     ELSE /\ adaptiveDirty' = FALSE
          /\ UNCHANGED <<actualTempo, metronomeTempo>>
  /\ lastOp' = Op("adaptive")
  /\ UNCHANGED <<pracVars, rhythmVars, pitchVars, eventVars, page, tempoRequest, tempo, isRecording, currentSession, adaptiveTempoEnabled,
                 currentTargetTempo, performanceHistory, boundedArr, envVars>>

\* pushPerformance(onBeat), called with the window's next value
PushPerformance(onBeat) ==
  /\ page = "home"
  /\ ~adaptiveDirty
  /\ isRecording /\ currentSession   \* onsets are reported while recording
  /\ Len(pushLog) < MaxPushes
  /\ onBeat \/ offBeatPushed < MaxOffBeat
  /\ performanceHistory' = pushPerformance(performanceHistory, onBeat)
  /\ adaptiveDirty' = TRUE
  /\ pushLog' = Append(pushLog, onBeat)
  /\ offBeatPushed' = IF onBeat THEN offBeatPushed ELSE offBeatPushed + 1
  /\ lastOp' = Op("push")
  /\ UNCHANGED <<pracVars, rhythmVars, pitchVars, eventVars, page, tempoRequest, tempo, metronomeTempo, isRecording, currentSession,
                 adaptiveTempoEnabled, currentTargetTempo, actualTempo,
                 boundedArr, tempoInputs, boundedLog>>

\* The rhythm event effect of PracticeSessionManager, for a session whose
\* rhythmEvents are events and the latestRhythmEvent prop latest: the event
\* is appended unless its timestamp is within DuplicateWindow ms of the last
\* recorded one.
RecordRhythmEvent(events, latest) ==
  IF latest = NoRhythmEvent THEN events
  ELSE IF events = <<>>
          \/ Dist(events[Len(events)].timestamp, latest.timestamp) > DuplicateWindow
       THEN Append(events, latest)
       ELSE events

\* RhythmAnalysis reports a classified onset: onRhythmEvent is
\* HomePage.handleRhythmEvent, which stores it in latestRhythmEvent; the
\* render that follows runs the rhythm event effect of
\* PracticeSessionManager.  RhythmAnalysis reports onsets only while
\* isRecording.
HandleRhythmEvent(onBeat) ==
  LET event == [timestamp |-> (eventsDelivered + 1) * OnsetSpacing,
                isOnBeat |-> onBeat]
  IN  /\ page = "home"
      /\ ~adaptiveDirty
      /\ isRecording
      /\ eventsDelivered < MaxRhythmEvents
      /\ latestRhythmEvent' = event
      /\ eventsDelivered' = eventsDelivered + 1
      /\ sessionRhythmEvents' =
           IF currentSession THEN RecordRhythmEvent(sessionRhythmEvents, event)
           ELSE sessionRhythmEvents
      /\ lastOp' = Op("rhythmEvent")
      /\ UNCHANGED <<pracVars, rhythmVars, pitchVars, page, tempoRequest, ctlVars,
                     boundedArr, envVars>>

\* the Switch's onCheckedChange: handleAdaptiveTempoToggle(!adaptiveTempoEnabled).
\* The Switch is rendered only while isRecording && currentSession.
HandleAdaptiveTempoToggle ==
  LET checked == ~adaptiveTempoEnabled
  IN  /\ page = "home"
      /\ ~adaptiveDirty
      /\ isRecording /\ currentSession
      /\ adaptiveTempoEnabled' = checked
      /\ IF ~checked THEN ToggleOffReset ELSE ToggleOnReset
      /\ adaptiveDirty' = TRUE
      /\ pushLog' = <<>>
      /\ lastOp' = Op(IF checked THEN "toggleOn" ELSE "toggleOff")
      /\ UNCHANGED <<pracVars, rhythmVars, pitchVars, eventVars, page, tempoRequest, tempo, isRecording, currentSession, boundedArr,
                     tempoInputs, offBeatPushed, boundedLog>>

\* "Start New Session": onStartSession -> App.handleStartPractice, then the
\* session effect creates currentSession.
StartSession ==
  /\ page = "home"
  /\ ~adaptiveDirty
  /\ ~(isRecording /\ currentSession)
  /\ isRecording' = TRUE
  /\ currentSession' = TRUE
  /\ adaptiveDirty' = (adaptiveDirty \/ ~isRecording)
  /\ sessionRhythmEvents' = RecordRhythmEvent(<<>>, latestRhythmEvent)
  /\ lastOp' = Op("startSession")
  /\ UNCHANGED <<latestRhythmEvent, eventsDelivered>>
  /\ UNCHANGED <<pracVars, rhythmVars, pitchVars, page, tempoRequest, tempo, metronomeTempo, adaptiveTempoEnabled,
                 currentTargetTempo, actualTempo, performanceHistory,
                 boundedArr, envVars>>

\* "End Session": handleEndSessionClick, whose onEndSession is
\* App.handleStopPractice.
HandleEndSessionClick ==
  /\ page = "home"
  /\ ~adaptiveDirty
  /\ isRecording /\ currentSession
  /\ currentSession' = FALSE
  /\ adaptiveTempoEnabled' = FALSE
  /\ actualTempo' = tempo
  /\ currentTargetTempo' = tempo
  /\ performanceHistory' = <<>>
  /\ isRecording' = FALSE
  /\ adaptiveDirty' = TRUE
  /\ pushLog' = <<>>
  /\ sessionRhythmEvents' = <<>>
  /\ lastOp' = Op("endSession")
  /\ UNCHANGED <<latestRhythmEvent, eventsDelivered>>
  /\ UNCHANGED <<pracVars, rhythmVars, pitchVars, page, tempoRequest, tempo, metronomeTempo, boundedArr, tempoInputs,
                 offBeatPushed, boundedLog>>

\* App.handleTempoChange, reached from the metronome's buttons and slider.
\* HomePage renders the metronome with tempo={metronomeTempo}.
AppHandleTempoChange(newTempo) ==
  /\ page = "home"
  /\ ~adaptiveDirty
  /\ tempoInputs < MaxTempoInputs
  /\ tempo' = newTempo
  /\ tempoInputs' = tempoInputs + 1
  /\ lastOp' = Op("tempoInput")
  /\ UNCHANGED <<pracVars, rhythmVars, pitchVars, eventVars, page, tempoRequest, metronomeTempo, isRecording, currentSession,
                 adaptiveTempoEnabled, currentTargetTempo, actualTempo,
                 performanceHistory, adaptiveDirty, boundedArr,
                 offBeatPushed, pushLog, boundedLog>>

\* onClick={() => onTempoChange(Math.max(40, tempo - 5))}
TempoMinusValue(t) == Max(MinTempo, t - TempoButtonStep)
\* onClick={() => onTempoChange(Math.min(240, tempo + 5))}
TempoPlusValue(t) == Min(MaxTempo, t + TempoButtonStep)

HomeTempoMinus == AppHandleTempoChange(TempoMinusValue(metronomeTempo))
HomeTempoPlus == AppHandleTempoChange(TempoPlusValue(metronomeTempo))
HomeTempoSlider == \E v \in SliderTempos : AppHandleTempoChange(v)

(***************************************************************************)
(* useBoundedArray.                                                        *)
(***************************************************************************)
\* push(item) with a plain value
BoundedArrayPush ==
  /\ page = "hook"
  /\ Len(boundedLog) < MaxBoundedPushes
  /\ \E item \in 0..2 :
       /\ boundedArr' = BoundedPush(boundedArr, item, BoundedMaxLength)
       /\ boundedLog' = Append(boundedLog, item)
  /\ lastOp' = Op("boundedPush")
  /\ UNCHANGED <<pracVars, rhythmVars, pitchVars, eventVars, page, tempoRequest, ctlVars, tempoInputs, offBeatPushed, pushLog>>

\* push(prev => prev.length): the functional form of item
BoundedArrayPushFn ==
  /\ page = "hook"
  /\ Len(boundedLog) < MaxBoundedPushes
  /\ boundedArr' = BoundedPush(boundedArr, Len(boundedArr), BoundedMaxLength)
  /\ boundedLog' = Append(boundedLog, Len(boundedArr))
  /\ lastOp' = Op("boundedPushFn")
  /\ UNCHANGED <<pracVars, rhythmVars, pitchVars, eventVars, page, tempoRequest, ctlVars, tempoInputs, offBeatPushed, pushLog>>

(***************************************************************************)
(* PracticePage, MetronomeContext and MetronomeComponent.                  *)
(*                                                                         *)
(* Times of the audio clock are whole milliseconds.  nextNoteTimeRef holds *)
(* its value multiplied by the tempo of the scheduler that wrote it, so    *)
(* that adding one beat (60 / tempo seconds) adds MsPerMinute and every    *)
(* comparison is one of integers.  Rounding of the floating-point sums is  *)
(* not part of the model.                                                  *)
(*                                                                         *)
(* PracticePage passes MetronomeComponent an inline onMetronomeStart, and  *)
(* onMetronomeStart is a dependency of the component's play/stop effect:   *)
(* every render of PracticePage re-runs that effect.  PracticePage renders *)
(* on each of its own state changes and, as a consumer of the context, on  *)
(* each change of tempo, isPlaying or startEpoch.                          *)
(***************************************************************************)
Null == 0 - 1

MaxClock == 400          \* the audio clock is followed up to this time (ms)
MaxSamples == 8          \* accuracy samples the interval draws
MaxLowSamples == 1       \* of which low ones
MaxPlayClicks == 1       \* clicks on the metronome's Start/Stop button
MaxSessions == 1         \* sessions started
MaxQuietTempoInputs == 2 \* tempo inputs in a run while no audio context exists
WallClockOffset == 1000  \* Date.now() - audioContext.currentTime * 1000

CtxInitialTempo == 80
SetupMetronomeTempo == 80
DefaultAccuracyThreshold == 90
AdaptWindow == 8
PracticeAdaptStep == 2
SampleIntervalMs == 50
FirstBeatLead == 150
MsPerMinute == 60000
BeatsPerBar == 4
PitchSamples == {0, 100}   \* the values of Math.floor(Math.random() * 101) drawn

NoSetup == [adaptiveTempo |-> FALSE, accuracyThreshold |-> 0, metronomeTempo |-> 0]
\* what SessionSetupPanel.handleStart passes to onStart
SetupChoices ==
  [adaptiveTempo : BOOLEAN, accuracyThreshold : {DefaultAccuracyThreshold},
   metronomeTempo : {SetupMetronomeTempo}]

\* Date.now(), while the audio clock reads currentTime
DateNow == WallClockOffset + currentTime

NewRun(t) ==
  [tempo |-> t, notices |-> 0, beats |-> 0, firstBeat |-> Null, lastBeat |-> Null,
   constTempo |-> TRUE]

RECURSIVE SumSeq(_)
SumSeq(s) == IF s = <<>> THEN 0 ELSE Head(s) + SumSeq(Tail(s))

\* setupData.accuracyThreshold || 90
ThresholdOf(data) ==
  IF data.accuracyThreshold = 0 THEN DefaultAccuracyThreshold ELSE data.accuracyThreshold

\* the tempo after the adaptive tempo effect of PracticePage ran on acc
PracticeAdaptiveTempo(data, acc, prev) ==
  IF /\ data.adaptiveTempo
     /\ Len(acc) >= AdaptWindow
     /\ SumSeq(LastN(acc, AdaptWindow)) > ThresholdOf(data) * AdaptWindow
  THEN Min(prev + PracticeAdaptStep, MaxTempo)
  ELSE prev

\* the stray frames after a request that overwrites schedulerTimerRef
\* without cancelling the frame it held
StrayAfterOverwrite(pending, stray) == IF pending THEN stray + 1 ELSE stray

\* the stray frames after the play/stop effect requested a frame: its
\* cleanup and the stopScheduler() at its start cancelled the frame that
\* schedulerTimerRef held
StrayAfterRestart(pending, stray) == stray

\* stopScheduler(): cancelAnimationFrame(schedulerTimerRef.current)
stopScheduler ==
  /\ schedulerTimerRef' = FALSE
  /\ strayFrames' = strayFrames
  /\ audioLoopBeatRef' = 0
  /\ hasStartedRef' = FALSE

\* One run of the play/stop effect of a mounted MetronomeComponent (after
\* the cleanup of its previous run), with the values of the new render.
PlayEffect(audio, playing, newTempo, time) ==
  IF ~audio
  THEN UNCHANGED schedVars
  ELSE IF playing
  THEN /\ audioLoopBeatRef' = 0
       /\ hasStartedRef' = FALSE
       /\ nextNoteTimeRef' = (time + FirstBeatLead) * newTempo
       /\ schedulerTimerRef' = TRUE
       /\ strayFrames' = StrayAfterRestart(schedulerTimerRef, strayFrames)
  ELSE /\ stopScheduler
       /\ UNCHANGED nextNoteTimeRef

\* the bookkeeping of the run across a render: a run begins when isPlaying
\* becomes true
RunAfter(wasPlaying, playing, newTempo) ==
  LET r == IF playing /\ ~wasPlaying THEN NewRun(newTempo) ELSE run
  IN  IF newTempo # ctxTempo /\ wasPlaying /\ playing
      THEN [r EXCEPT !.constTempo = FALSE] ELSE r

\* A render of PracticePage with MetronomeComponent mounted: the play/stop
\* effect runs with the new values.
RenderRunning(audio, playing, newTempo, time) ==
  /\ PlayEffect(audio, playing, newTempo, time)
  /\ run' = RunAfter(isPlaying, playing, newTempo)

\* MetronomeComponent unmounts: the cleanup of its effect, if it had one
UnmountMetronome ==
  IF audioContext
  THEN stopScheduler /\ UNCHANGED nextNoteTimeRef
  ELSE UNCHANGED schedVars

\* PracticePage.handleStart(data), and the first render of stage 'running'
HandleStart(data) ==
  /\ page = "practice"
  /\ stage = "setup"
  /\ sessions < MaxSessions
  /\ setupData' = data
  /\ ctxTempo' = data.metronomeTempo
  /\ isPlaying' = TRUE                 \* if (!isMetronomePlaying) togglePlay()
  /\ pitchAcc' = <<>>
  /\ paused' = FALSE
  /\ stage' = "running"
  /\ RenderRunning(audioContext, TRUE, data.metronomeTempo, currentTime)
  /\ sampleDue' = FALSE
  /\ sessions' = sessions + 1
  /\ tempoRequest' = data.metronomeTempo
  /\ UNCHANGED <<startEpoch, audioContext, currentTime, samplesTaken, lowSamples,
                 playClicks, tempoInputs, page, homeVars, pitchVars, rhythmVars>>

\* PracticePage.handleFinish: stopInterval(); setStage('finished')
HandleFinish ==
  /\ page = "practice"
  /\ stage = "running"
  /\ stage' = "finished"
  /\ UnmountMetronome
  /\ UNCHANGED <<setupData, paused, pitchAcc, metVars, audioContext, currentTime,
                 pracEnv, run, tempoInputs, page, tempoRequest, homeVars, pitchVars, rhythmVars>>

\* PracticePage.handleDiscard (also the setup panel's onCancel):
\* stopInterval(); setStage('setup'); setSetupData(null); navigate('/')
HandleDiscard ==
  /\ page = "practice"
  /\ stage \in {"setup", "running"}
  /\ stage' = "away"
  /\ setupData' = NoSetup
  /\ IF stage = "running" THEN UnmountMetronome ELSE UNCHANGED schedVars
  /\ UNCHANGED <<paused, pitchAcc, metVars, audioContext, currentTime,
                 pracEnv, run, tempoInputs, page, tempoRequest, homeVars, pitchVars, rhythmVars>>

\* SessionSummaryModal.onClose: setSummaryOpen(false); navigate('/')
CloseSummary ==
  /\ page = "practice"
  /\ stage = "finished"
  /\ stage' = "away"
  /\ UNCHANGED <<setupData, paused, pitchAcc, metVars, audioContext, currentTime,
                 schedVars, pracEnv, run, tempoInputs, page, tempoRequest, homeVars, pitchVars, rhythmVars>>

\* the route of PracticePage is entered again: a fresh PracticePage mounts
\* under the MetronomeProvider and AudioProvider that stayed mounted
EnterPracticePage ==
  /\ page = "practice"
  /\ stage = "away"
  /\ stage' = "setup"
  /\ setupData' = NoSetup
  /\ paused' = FALSE
  /\ pitchAcc' = <<>>
  /\ UNCHANGED <<metVars, audioContext, currentTime, schedVars, pracEnv, run,
                 tempoInputs, page, tempoRequest, homeVars, pitchVars, rhythmVars>>

\* LiveControlsBar.onPauseToggle: setPaused(p => !p)
OnPauseToggle ==
  /\ page = "practice"
  /\ stage = "running"
  /\ paused' = ~paused
  /\ RenderRunning(audioContext, isPlaying, ctxTempo, currentTime)
  /\ UNCHANGED <<stage, setupData, pitchAcc, metVars, audioContext, currentTime,
                 pracEnv, tempoInputs, page, tempoRequest, homeVars, pitchVars, rhythmVars>>

\* One callback of the 50 ms interval of handleStart while not paused: a
\* sample is appended to pitchAcc, the adaptive tempo effect runs on it.
SampleTick(sample) ==
  /\ page = "practice"
  /\ stage = "running"
  /\ ~paused                           \* if (pausedRef.current) return
  /\ (audioContext => sampleDue)
  /\ samplesTaken < MaxSamples
  /\ sample = 0 => lowSamples < MaxLowSamples
  /\ pitchAcc' = LastN(Append(pitchAcc, sample), AdaptWindow)
  /\ ctxTempo' = PracticeAdaptiveTempo(setupData, pitchAcc', ctxTempo)
  /\ RenderRunning(audioContext, isPlaying, ctxTempo', currentTime)
  /\ sampleDue' = FALSE
  /\ samplesTaken' = samplesTaken + 1
  /\ lowSamples' = IF sample = 0 THEN lowSamples + 1 ELSE lowSamples
  /\ UNCHANGED <<stage, setupData, paused, isPlaying, startEpoch, audioContext,
                 currentTime, playClicks, sessions, tempoInputs, page, tempoRequest, homeVars, pitchVars,
                 rhythmVars>>

\* AudioInputComponent: initializeAudio() resolves; the audio clock starts
InitializeAudio ==
  /\ page = "practice"
  /\ stage = "running"
  /\ ~audioContext
  /\ audioContext' = TRUE
  /\ currentTime' = 0
  /\ RenderRunning(TRUE, isPlaying, ctxTempo, 0)
  /\ UNCHANGED <<pageVars, metVars, pracEnv, tempoInputs, page, tempoRequest, homeVars, pitchVars, rhythmVars>>

\* AudioInputComponent: onAudioData={setAudioData} with a new frame
OnAudioData ==
  /\ page = "practice"
  /\ stage = "running"
  /\ audioContext
  /\ ~paused                           \* isRecording={!paused}
  /\ RenderRunning(audioContext, isPlaying, ctxTempo, currentTime)
  /\ UNCHANGED <<pageVars, metVars, audioContext, currentTime, pracEnv,
                 tempoInputs, page, tempoRequest, homeVars, pitchVars, rhythmVars>>

\* the audio clock and the wall clock advance by 50 ms
AdvanceClock ==
  /\ page = "practice"
  /\ audioContext /\ stage = "running"
  /\ currentTime + SampleIntervalMs <= MaxClock
  /\ ~(~paused /\ sampleDue)          \* the interval's callback runs first
  /\ currentTime' = currentTime + SampleIntervalMs
  /\ sampleDue' = TRUE
  /\ UNCHANGED <<pageVars, metVars, audioContext, schedVars, samplesTaken,
                 lowSamples, playClicks, sessions, run, tempoInputs, page, tempoRequest,
                 homeVars, pitchVars, rhythmVars>>

\* One animation frame of the scheduler.  When it commits beat 0 of a start
\* it calls setStartEpoch: the context changes, PracticePage renders and the
\* play/stop effect runs again.
SchedulerTick ==
  /\ page = "practice"
  /\ stage = "running"
  /\ schedulerTimerRef
  /\ IF ~audioContext \/ ~isPlaying    \* isPlayingRef.current is isPlaying after a render
     THEN /\ schedulerTimerRef' = FALSE
          /\ UNCHANGED <<nextNoteTimeRef, audioLoopBeatRef, hasStartedRef, strayFrames,
                         startEpoch, run>>
     ELSE IF currentTime * ctxTempo >= nextNoteTimeRef
     THEN LET beatIndexToSchedule == audioLoopBeatRef
              starts == beatIndexToSchedule = 0 /\ ~hasStartedRef
              \* Date.now() + (nextBeatTime - currentTime) * 1000; the time of
              \* beat 0 of a start is a whole number of ms
              epochTime == DateNow + ((nextNoteTimeRef \div ctxTempo) - currentTime)
          IN  /\ startEpoch' = IF starts THEN epochTime ELSE startEpoch
              /\ run' = [run EXCEPT !.beats = @ + 1,
                                    !.firstBeat = IF @ = Null THEN nextNoteTimeRef ELSE @,
                                    !.lastBeat = nextNoteTimeRef,
                                    !.notices = IF starts THEN @ + 1 ELSE @]
              /\ IF starts /\ epochTime # startEpoch
                 THEN PlayEffect(TRUE, TRUE, ctxTempo, currentTime)
                 ELSE /\ hasStartedRef' = (hasStartedRef \/ starts)
                      /\ audioLoopBeatRef' = (audioLoopBeatRef + 1) % BeatsPerBar
                      /\ nextNoteTimeRef' = nextNoteTimeRef + MsPerMinute
                      /\ schedulerTimerRef' = TRUE   \* the frame that ran is replaced
                      /\ strayFrames' = strayFrames
     ELSE UNCHANGED <<schedVars, startEpoch, run>>
  /\ UNCHANGED <<pageVars, ctxTempo, isPlaying, audioContext, currentTime, pracEnv,
                 tempoInputs, page, tempoRequest, homeVars, pitchVars, rhythmVars>>

\* MetronomeComponent.handlePlayPauseClick: initializeAudio() if needed,
\* then togglePlay()
HandlePlayPauseClick ==
  /\ page = "practice"
  /\ stage = "running"
  /\ playClicks < MaxPlayClicks
  /\ audioContext' = TRUE
  /\ currentTime' = IF audioContext THEN currentTime ELSE 0
  /\ isPlaying' = ~isPlaying
  /\ RenderRunning(TRUE, ~isPlaying, ctxTempo, currentTime')
  /\ playClicks' = playClicks + 1
  /\ UNCHANGED <<pageVars, ctxTempo, startEpoch, sampleDue, samplesTaken, lowSamples,
                 sessions, tempoInputs, page, tempoRequest, homeVars, pitchVars, rhythmVars>>

\* MetronomeContext.setTempo(v) from MetronomeComponent's buttons and slider;
\* the control was asked for the tempo requested
MetronomeSetTempo(requested, v) ==
  /\ page = "practice"
  /\ stage = "running"
  /\ tempoInputs < (IF audioContext THEN MaxTempoInputs ELSE MaxQuietTempoInputs)
  /\ tempoRequest' = requested
  /\ ctxTempo' = v
  /\ IF v # ctxTempo
     THEN RenderRunning(audioContext, isPlaying, v, currentTime)
     ELSE UNCHANGED <<schedVars, run>>
  /\ tempoInputs' = tempoInputs + 1
  /\ UNCHANGED <<pageVars, isPlaying, startEpoch, audioContext, currentTime, pracEnv,
                 page, homeVars, pitchVars, rhythmVars>>

MetTempoMinus == MetronomeSetTempo(ctxTempo - TempoButtonStep, TempoMinusValue(ctxTempo))
MetTempoPlus == MetronomeSetTempo(ctxTempo + TempoButtonStep, TempoPlusValue(ctxTempo))
\* handleTempoChange: setTempo(parseInt(e.target.value, 10))
MetTempoSlider == \E v \in SliderTempos : MetronomeSetTempo(v, v)

(***************************************************************************)
(* RhythmAnalysis: the onset detector.  RMS values and the adaptive        *)
(* threshold are in units of 1/10000; the threshold's weighted sum is      *)
(* rounded down to that unit.                                              *)
(***************************************************************************)
MaxFrames == 6           \* audio frames delivered to the detector
MaxStreamFrames == 20    \* frames of the alternating stream
MaxPropChanges == 2      \* changes of the props other than audioData
FrameGaps == {10, 50}    \* ms between two audio frames
FirstFrameGaps == {850, 1150}   \* ms to the first frame when delivery starts late
RmsLevels == {0, 1000, 3000}
SilentRms == 0           \* new Float32Array(2048).fill(0)
LoudRms == 4000          \* new Float32Array(2048).fill(0.4)
StreamPeriod == 50       \* setInterval(..., 50)
RhythmTempos == {80, 240}   \* the values props.tempo takes
EpochLags == {0, 10}     \* ms from beat 0 to the scheduler frame that commits it

ThrottleMs == 16
RefractoryMs == 100
InitialThreshold == 500      \* 0.05
ThresholdKeep == 99          \* 0.99
ThresholdGain == 1           \* 0.01
ThresholdScale == 100
BeatHistoryLength == 10
ScoreWindow == 5
ToleranceDivisor == 4        \* toleranceWindow = beatDuration * 0.25
Percent == 100

\* the analyzer takes the metronome for started whatever the epoch
NotInitializedNever(start) == FALSE

\* !metronomeStartTime.current
NotInitialized(start) == start = Null

\* an onset is accepted whatever the time since the last one
DebounceIgnored(last, t) == TRUE

\* !lastOnsetTime.current || now - lastOnsetTime.current > 100
DebouncePassed(last, t) == last = Null \/ t - last > RefractoryMs

\* the gaps the frame after n delivered frames can arrive with
FrameGapsAt(n) == IF n = 0 THEN FrameGaps \cup FirstFrameGaps ELSE FrameGaps

\* no frame is an onset candidate
IsCandidateNever(rms) == FALSE

\* rms > adaptiveThresholdRef.current && rms > prevRMSRef.current
IsCandidate(rms) == rms > adaptiveThresholdRef /\ rms > prevRMSRef

\* The onset detection effect, run at time t on the frame with RMS rms.
OnsetEffect(recording, playing, start, rms, t) ==
  IF ~recording \/ ~playing \/ rms = Null \/ NotInitialized(start)
  THEN UNCHANGED <<lastProcessedTime, prevRMSRef, adaptiveThresholdRef,
                   lastOnsetTime, candidateLog, onsetLog>>
  ELSE IF t - lastProcessedTime < ThrottleMs
  THEN UNCHANGED <<lastProcessedTime, prevRMSRef, adaptiveThresholdRef,
                   lastOnsetTime, candidateLog, onsetLog>>
  ELSE LET accepted == IsCandidate(rms) /\ DebouncePassed(lastOnsetTime, t)
       IN  /\ candidateLog' = IF IsCandidate(rms) THEN Append(candidateLog, t)
                              ELSE candidateLog
           /\ onsetLog' = IF accepted THEN Append(onsetLog, t) ELSE onsetLog
           /\ lastOnsetTime' = IF accepted THEN t ELSE lastOnsetTime
           /\ prevRMSRef' = rms
           /\ lastProcessedTime' = t
           /\ adaptiveThresholdRef' =
                Max(InitialThreshold,
                    (ThresholdKeep * adaptiveThresholdRef + ThresholdGain * rms)
                      \div ThresholdScale)

\* the onset detection effect hands the frame with RMS rms to analyzeOnset at time t
OnsetAccepted(recording, playing, start, rms, t) ==
  /\ recording /\ playing /\ rms # Null /\ ~NotInitialized(start)
  /\ t - lastProcessedTime >= ThrottleMs
  /\ IsCandidate(rms)
  /\ DebouncePassed(lastOnsetTime, t)

\* beat matching that takes the beat nearest to the onset
RhythmEventOfNearest(start, tmp, etmp, t) ==
  LET elapsedTime == t - start
      beatIndex == (2 * elapsedTime * tmp + MsPerMinute) \div (2 * MsPerMinute)
      deviation == elapsedTime * tmp - beatIndex * MsPerMinute
      absDeviation == IF deviation < 0 THEN 0 - deviation ELSE deviation
  IN  [timestamp |-> elapsedTime,
       deviation |-> deviation,
       beatIndex |-> beatIndex,
       isOnBeat |-> ToleranceDivisor * absDeviation <= MsPerMinute,
       tempo |-> tmp,
       epochTempo |-> etmp]

\* analyzeOnset(t): the event handed to onRhythmEvent.  deviation is in ms
\* multiplied by the tempo tmp (beatDuration is 60000 / tmp); tempo and
\* epochTempo record the tempo behind beatInterval.current and the tempo at
\* which the epoch start was established.
RhythmEventOf(start, tmp, etmp, t) ==
  LET elapsedTime == t - start
      beatIndex == (elapsedTime * tmp) \div MsPerMinute
      deviation == elapsedTime * tmp - beatIndex * MsPerMinute
      absDeviation == IF deviation < 0 THEN 0 - deviation ELSE deviation
  IN  [timestamp |-> elapsedTime,
       deviation |-> deviation,
       beatIndex |-> beatIndex,
       isOnBeat |-> ToleranceDivisor * absDeviation <= MsPerMinute,
       tempo |-> tmp,
       epochTempo |-> etmp]

FirstN(seq, n) == SubSeq(seq, 1, Min(Len(seq), n))

\* the score effect: Math.round(onBeatCount / Math.max(recentBeats.length, 1) * 100)
ScoreOf(hist) ==
  LET recentBeats == FirstN(hist, ScoreWindow)
      onBeatCount == Cardinality({i \in 1..Len(recentBeats) : recentBeats[i].isOnBeat})
      n == Max(Len(recentBeats), 1)
  IN  (2 * Percent * onBeatCount + n) \div (2 * n)

\* the reset effect, run when isRecording or isPlaying changed: the beat
\* history it leaves
ResetEffect(recording, playing, start, hist) ==
  IF recording /\ playing /\ NotInitialized(start) THEN hist ELSE <<>>

\* analyzeOnset as the onset detection effect calls it, on the beat history
\* hist, followed by the score effect
AnalyzeEffect(hist, recording, playing, start, tmp, etmp, rms, t) ==
  LET emitted == OnsetAccepted(recording, playing, start, rms, t) /\ ~NotInitialized(start)
      ev == RhythmEventOf(start, tmp, etmp, t)
      newBeat == [timestamp |-> t, deviation |-> ev.deviation, isOnBeat |-> ev.isOnBeat]
  IN  /\ rhythmEvents' = IF emitted THEN Append(rhythmEvents, ev) ELSE rhythmEvents
      /\ beatHistory' = IF emitted THEN FirstN(<<newBeat>> \o hist, BeatHistoryLength)
                                   ELSE hist
      /\ rhythmScore' = ScoreOf(beatHistory')

\* a new audio frame arrives gap ms after the previous one, as one of the
\* first limit frames
RhythmFrameUpTo(rms, gap, limit) ==
  /\ page = "rhythm"
  /\ framesSeen < limit
  /\ framesSeen' = framesSeen + 1
  /\ now' = now + gap
  /\ audioRms' = rms
  /\ OnsetEffect(isRecordingProp, isPlayingProp, metronomeStartTime, rms, now')
  /\ AnalyzeEffect(beatHistory, isRecordingProp, isPlayingProp, metronomeStartTime,
                   tempoProp, epochTempo, rms, now')
  /\ UNCHANGED <<isRecordingProp, isPlayingProp, metronomeStartTime, propChanges,
                 tempoProp, epochTempo, page, tempoRequest, homeVars, pitchVars, tempoInputs, pracVars>>

\* a new audio frame arrives gap ms after the previous one
RhythmFrame(rms, gap) == RhythmFrameUpTo(rms, gap, MaxFrames)

\* the next frame of a stream that alternates between silence and a loud
\* signal, one frame every StreamPeriod ms; the stream may begin late
AlternatingFrame ==
  \E rms \in {SilentRms, LoudRms},
     gap \in {StreamPeriod} \cup (IF framesSeen = 0 THEN FirstFrameGaps ELSE {}) :
    /\ audioRms # rms
    /\ RhythmFrameUpTo(rms, gap, MaxStreamFrames)

\* the parent renders with another isRecording
SetRecordingProp ==
  /\ page = "rhythm"
  /\ propChanges < MaxPropChanges
  /\ isRecordingProp' = ~isRecordingProp
  /\ OnsetEffect(~isRecordingProp, isPlayingProp, metronomeStartTime, audioRms, now)
  /\ AnalyzeEffect(ResetEffect(~isRecordingProp, isPlayingProp, metronomeStartTime,
                               beatHistory),
                   ~isRecordingProp, isPlayingProp, metronomeStartTime,
                   tempoProp, epochTempo, audioRms, now)
  /\ propChanges' = propChanges + 1
  /\ UNCHANGED <<isPlayingProp, metronomeStartTime, audioRms, now, framesSeen,
                 tempoProp, epochTempo, page, tempoRequest, homeVars, pitchVars, tempoInputs, pracVars>>

\* the parent renders with another isPlaying
SetPlayingProp ==
  /\ page = "rhythm"
  /\ propChanges < MaxPropChanges
  /\ isPlayingProp' = ~isPlayingProp
  /\ OnsetEffect(isRecordingProp, ~isPlayingProp, metronomeStartTime, audioRms, now)
  /\ AnalyzeEffect(ResetEffect(isRecordingProp, ~isPlayingProp, metronomeStartTime,
                               beatHistory),
                   isRecordingProp, ~isPlayingProp, metronomeStartTime,
                   tempoProp, epochTempo, audioRms, now)
  /\ propChanges' = propChanges + 1
  /\ UNCHANGED <<isRecordingProp, metronomeStartTime, audioRms, now, framesSeen,
                 tempoProp, epochTempo, page, tempoRequest, homeVars, pitchVars, tempoInputs, pracVars>>

\* the parent renders with another tempo: beatInterval.current follows at
\* once, the epoch stays
SetTempoProp ==
  /\ page = "rhythm"
  /\ propChanges < MaxPropChanges
  /\ \E v \in RhythmTempos \ {tempoProp} : tempoProp' = v
  /\ propChanges' = propChanges + 1
  /\ UNCHANGED <<isRecordingProp, isPlayingProp, metronomeStartTime, audioRms, now,
                 lastProcessedTime, prevRMSRef, adaptiveThresholdRef, lastOnsetTime,
                 framesSeen, candidateLog, onsetLog, epochTempo, beatHistory,
                 rhythmScore, rhythmEvents, page, tempoRequest, homeVars, pitchVars, tempoInputs, pracVars>>

\* the parent renders with a new metronomeStartTime: the scheduler has
\* committed a beat 0 that was due lag ms ago, at the tempo of the moment
SetMetronomeStartTime(lag) ==
  /\ page = "rhythm"
  /\ propChanges < MaxPropChanges
  /\ metronomeStartTime # now - lag
  /\ metronomeStartTime' = now - lag
  /\ propChanges' = propChanges + 1
  /\ epochTempo' = tempoProp
  /\ OnsetEffect(isRecordingProp, isPlayingProp, now - lag, audioRms, now)
  /\ AnalyzeEffect(beatHistory, isRecordingProp, isPlayingProp, now - lag,
                   tempoProp, tempoProp, audioRms, now)
  /\ UNCHANGED <<isRecordingProp, isPlayingProp, audioRms, now,
                 framesSeen, tempoProp, page, tempoRequest, homeVars, pitchVars, tempoInputs, pracVars>>

(***************************************************************************)
(* PitchDetection: the two sliding buffers.  A frame is its RMS (in        *)
(* 1/10000), the pitch findPitch returns for it (Hz) and the clarity (in   *)
(* percent).                                                               *)
(***************************************************************************)
MaxPitchFrames == 6      \* audio frames given to the pitch detector

SilenceFloor == 100          \* rms > 0.01
bufferSize == 5              \* bufferSizeRef
MinPitch == 30
MaxPitch == 5000
EffectClarity == 40          \* clarity > 0.4
LoopClarity == 50            \* clarity > 0.5

LowestNote == 16         \* if (frequency < 16.35), on whole frequencies
HighestNote == 4186      \* if (frequency > 4186.01), on whole frequencies
NoCents == 1000
NoFrame == [rms |-> Null, pitch |-> Null, clarity |-> Null]
NoPitchEvent == [note |-> "none", frequency |-> Null, cents |-> NoCents, confidence |-> Null]
\* { note: '--', frequency: null, cents: null, confidence: undefined }
NullPitchEvent == [note |-> "--", frequency |-> Null, cents |-> NoCents, confidence |-> Null]

PitchFrameInputs ==
  {[rms |-> 50, pitch |-> 0, clarity |-> 0], [rms |-> SilenceFloor, pitch |-> 440, clarity |-> 90]}
  \cup [rms : {2000}, pitch : {262, 440}, clarity : {30, 45, 90}]
  \cup [rms : {2000}, pitch : {MinPitch, MaxPitch}, clarity : {90}]
  \cup {[rms |-> 2000, pitch |-> 440, clarity |-> EffectClarity],
        [rms |-> 2000, pitch |-> 330, clarity |-> 90],
        [rms |-> 2000, pitch |-> 4500, clarity |-> 90]}

\* getNote(frequency) on the frequencies of this model: 262 Hz is 48.02
\* semitones above C0, 330 Hz is 52.02, 440 Hz is 57
getNote(frequency) ==
  IF frequency < LowestNote THEN [note |-> "Below audible range", cents |-> 0]
  ELSE IF frequency > HighestNote THEN [note |-> "Above audible range", cents |-> 0]
  ELSE IF frequency = 262 THEN [note |-> "C4", cents |-> 2]
  ELSE IF frequency = 330 THEN [note |-> "E4", cents |-> 2]
  ELSE [note |-> "A4", cents |-> 0]

\* rms > 0.01
HasSignal(frame) == frame.rms > SilenceFloor

\* the PitchDetection that is mounted
pitchImpl == IF page = "pitch" THEN "effect" ELSE "loop"

ClarityThreshold(impl) == IF impl = "effect" THEN EffectClarity ELSE LoopClarity

\* a gate that lets the two ends of the frequency range through
PitchAcceptedInclusive(impl, frame) ==
  /\ frame.pitch # 0
  /\ frame.pitch >= MinPitch
  /\ frame.pitch <= MaxPitch
  /\ frame.clarity > ClarityThreshold(impl)

\* pitch && pitch > 30 && pitch < 5000 && clarity > threshold
PitchAccepted(impl, frame) ==
  /\ frame.pitch # 0
  /\ frame.pitch > MinPitch
  /\ frame.pitch < MaxPitch
  /\ frame.clarity > ClarityThreshold(impl)

\* buffer.push(item); if (buffer.length > bufferSizeRef.current) buffer.shift()
PushSliding(buffer, item) == LastN(Append(buffer, item), bufferSize)

\* the entry pushed last
MostRecentOf(buffer) == buffer[Len(buffer)]

\* [...buffer].sort((a, b) => a - b)[Math.floor(buffer.length / 2)]
MedianOf(buffer) ==
  LET k == Len(buffer) \div 2
  IN  CHOOSE x \in {buffer[i] : i \in 1..Len(buffer)} :
        /\ Cardinality({i \in 1..Len(buffer) : buffer[i] < x}) <= k
        /\ Cardinality({i \in 1..Len(buffer) : buffer[i] <= x}) > k

CountUpTo(buffer, i) == Cardinality({j \in 1..i : buffer[j] = buffer[i]})

\* the greatest count the scan of the note buffer reaches
MaxCountOf(buffer) ==
  CHOOSE c \in 1..Len(buffer) :
    /\ \E i \in 1..Len(buffer) : CountUpTo(buffer, i) = c
    /\ \A i \in 1..Len(buffer) : CountUpTo(buffer, i) <= c

\* the note name pushed last
LatestNoteOf(buffer) == buffer[Len(buffer)]

\* the note whose count reaches the greatest count first in the scan
DominantNoteOf(buffer) ==
  LET first == CHOOSE i \in 1..Len(buffer) :
                 /\ CountUpTo(buffer, i) = MaxCountOf(buffer)
                 /\ \A j \in 1..(i - 1) : CountUpTo(buffer, j) < MaxCountOf(buffer)
  IN  buffer[first]

\* Math.round(noteStability * confidence), confidence = Math.min(clarity * 100, 100)
ConfidenceOf(buffer, clarity) ==
  (2 * MaxCountOf(buffer) * Min(clarity, Percent) + Len(buffer)) \div (2 * Len(buffer))

\* the branch of an accepted pitch
PitchAnalysed(impl, frame) ==
  LET freqs == PushSliding(frequencyBuffer, frame.pitch)
      medianFreq == MedianOf(freqs)
      notes == PushSliding(noteBuffer, getNote(medianFreq).note)
      dominantNote == DominantNoteOf(notes)
      confidence == ConfidenceOf(notes, frame.clarity)
  IN  /\ frequencyBuffer' = freqs
      /\ noteBuffer' = notes
      /\ detectedFrequency' = medianFreq
      /\ detectedNote' = dominantNote
      /\ centsDeviation' = getNote(medianFreq).cents
      /\ confidenceLevel' = confidence
      /\ lastPitchEvent' = [note |-> dominantNote, frequency |-> medianFreq,
                            cents |-> getNote(medianFreq).cents,
                            confidence |-> IF impl = "effect" THEN confidence ELSE Null]

\* setDetectedNote('--'); setDetectedFrequency(null); setCentsDeviation(null);
\* setConfidenceLevel(0); onPitchDetected(null sample)
PitchStateReset ==
  /\ detectedNote' = "--"
  /\ detectedFrequency' = Null
  /\ centsDeviation' = NoCents
  /\ confidenceLevel' = 0
  /\ lastPitchEvent' = NullPitchEvent

\* One audio frame reaches the detector while recording: the audio
\* processing effect of the PitchDetection fed by props, or one turn of the
\* detectPitch loop of the PitchDetection with its own analyser.
PitchFrame(frame) ==
  /\ page \in {"pitch", "pitchloop"}
  /\ pitchRecording
  /\ pitchFrames < MaxPitchFrames
  /\ pitchFrames' = pitchFrames + 1
  /\ lastFrame' = frame
  /\ IF HasSignal(frame)
     THEN IF PitchAccepted(pitchImpl, frame)
          THEN PitchAnalysed(pitchImpl, frame)
          ELSE UNCHANGED <<frequencyBuffer, noteBuffer, detectedNote, detectedFrequency,
                           centsDeviation, confidenceLevel, lastPitchEvent>>
     ELSE IF pitchImpl = "effect" /\ (Len(frequencyBuffer) > 0 \/ Len(noteBuffer) > 0)
          THEN /\ frequencyBuffer' = <<>>
               /\ noteBuffer' = <<>>
               /\ PitchStateReset
          ELSE UNCHANGED <<frequencyBuffer, noteBuffer, detectedNote, detectedFrequency,
                           centsDeviation, confidenceLevel, lastPitchEvent>>
  /\ UNCHANGED <<pitchRecording, page, tempoRequest, homeVars, tempoInputs, pracVars, rhythmVars>>

\* the parent renders with another isRecording: on a stop the detection
\* state is reset, and the PitchDetection fed by props clears its buffers
PitchSetRecording ==
  /\ page \in {"pitch", "pitchloop"}
  /\ pitchRecording' = ~pitchRecording
  /\ IF pitchRecording
     THEN /\ PitchStateReset
          /\ IF pitchImpl = "effect"
             THEN frequencyBuffer' = <<>> /\ noteBuffer' = <<>>
             ELSE UNCHANGED <<frequencyBuffer, noteBuffer>>
     ELSE UNCHANGED <<frequencyBuffer, noteBuffer, detectedNote, detectedFrequency,
                      centsDeviation, confidenceLevel, lastPitchEvent>>
  /\ UNCHANGED <<lastFrame, pitchFrames, page, tempoRequest, homeVars, tempoInputs, pracVars,
                 rhythmVars>>

(***************************************************************************)
(* Specifications.                                                         *)
(***************************************************************************)
InitState ==
  /\ tempo = AppInitialTempo
  /\ metronomeTempo = AppInitialTempo
  /\ isRecording = FALSE
  /\ currentSession = FALSE
  /\ adaptiveTempoEnabled = FALSE
  /\ currentTargetTempo = AppInitialTempo
  /\ actualTempo = AppInitialTempo
  /\ performanceHistory = <<>>
  /\ adaptiveDirty = TRUE      \* effects run once after mount
  /\ boundedArr = <<>>
  /\ tempoInputs = 0
  /\ latestRhythmEvent = NoRhythmEvent
  /\ sessionRhythmEvents = <<>>
  /\ eventsDelivered = 0
  /\ offBeatPushed = 0
  /\ pushLog = <<>>
  /\ boundedLog = <<>>
  /\ lastOp = [op |-> "mount", actualBefore |-> AppInitialTempo]
  \* PracticePage under fresh providers
  /\ stage = "setup"
  /\ setupData = NoSetup
  /\ paused = FALSE
  /\ pitchAcc = <<>>
  /\ ctxTempo = CtxInitialTempo
  /\ isPlaying = FALSE
  /\ startEpoch = Null
  /\ audioContext = FALSE
  /\ currentTime = 0
  /\ nextNoteTimeRef = 0
  /\ audioLoopBeatRef = 0
  /\ schedulerTimerRef = FALSE
  /\ strayFrames = 0
  /\ hasStartedRef = FALSE
  /\ sampleDue = FALSE
  /\ samplesTaken = 0
  /\ lowSamples = 0
  /\ playClicks = 0
  /\ sessions = 0
  /\ run = NewRun(CtxInitialTempo)
  /\ tempoRequest = Null
  \* RhythmAnalysis as PracticePage mounts it: recording, playing, no epoch yet
  /\ isRecordingProp = TRUE
  /\ isPlayingProp = TRUE
  /\ metronomeStartTime = Null
  /\ audioRms = Null
  /\ now = WallClockOffset
  /\ lastProcessedTime = 0
  /\ prevRMSRef = 0
  /\ adaptiveThresholdRef = InitialThreshold
  /\ lastOnsetTime = Null
  /\ framesSeen = 0
  /\ propChanges = 0
  /\ candidateLog = <<>>
  /\ onsetLog = <<>>
  /\ tempoProp = CtxInitialTempo
  /\ epochTempo = Null
  /\ beatHistory = <<>>
  /\ rhythmScore = 0
  /\ rhythmEvents = <<>>
  \* PitchDetection as the pages mount it: recording, nothing detected
  /\ pitchRecording = TRUE
  /\ frequencyBuffer = <<>>
  /\ noteBuffer = <<>>
  /\ detectedNote = "--"
  /\ detectedFrequency = Null
  /\ centsDeviation = NoCents
  /\ confidenceLevel = 0
  /\ lastPitchEvent = NoPitchEvent
  /\ lastFrame = NoFrame
  /\ pitchFrames = 0

Init == page \in {"home", "practice", "hook", "rhythm", "pitch", "pitchloop"} /\ InitState

NextHome ==
  \/ AdaptiveTempoEffect
  \/ \E onBeat \in BOOLEAN : PushPerformance(onBeat)
  \/ HandleAdaptiveTempoToggle
  \/ StartSession
  \/ HandleEndSessionClick
  \/ HomeTempoMinus
  \/ HomeTempoPlus
  \/ HomeTempoSlider

\* a session of PracticeSessionManager with the onsets RhythmAnalysis reports
NextSession ==
  \/ AdaptiveTempoEffect
  \/ \E onBeat \in BOOLEAN : PushPerformance(onBeat)
  \/ \E onBeat \in BOOLEAN : HandleRhythmEvent(onBeat)
  \/ HandleAdaptiveTempoToggle
  \/ StartSession
  \/ HandleEndSessionClick

NextHook ==
  \/ BoundedArrayPush
  \/ BoundedArrayPushFn

NextPractice ==
  \/ \E data \in SetupChoices : HandleStart(data)
  \/ HandleFinish
  \/ HandleDiscard
  \/ CloseSummary
  \/ EnterPracticePage
  \/ OnPauseToggle
  \/ \E sample \in PitchSamples : SampleTick(sample)
  \/ InitializeAudio
  \/ OnAudioData
  \/ AdvanceClock
  \/ SchedulerTick
  \/ HandlePlayPauseClick
  \/ MetTempoMinus
  \/ MetTempoPlus
  \/ MetTempoSlider

NextRhythm ==
  \/ \E rms \in RmsLevels, gap \in FrameGapsAt(framesSeen) : RhythmFrame(rms, gap)
  \/ SetRecordingProp
  \/ SetPlayingProp
  \/ SetTempoProp
  \/ \E lag \in EpochLags : SetMetronomeStartTime(lag)

NextPitch ==
  \/ \E frame \in PitchFrameInputs : PitchFrame(frame)
  \/ PitchSetRecording

\* The controller of the home page.
InitCtl == page = "home" /\ InitState
SpecCtl == InitCtl /\ [][NextHome]_vars

\* A recorded session and the onsets reported to it.
InitSession == page = "home" /\ InitState
SpecSession == InitSession /\ [][NextSession]_vars

\* The two bounded windows: the controller's and the hook's.
NextWindow == NextHome \/ NextHook
InitWindow == page \in {"home", "hook"} /\ InitState
SpecWindow == InitWindow /\ [][NextWindow]_vars

\* The practice page with its metronome.
InitMet == page = "practice" /\ InitState
SpecMet == InitMet /\ [][NextPractice]_vars

\* Every place a tempo is set: the home page and the practice page.
NextTempo == NextHome \/ NextPractice
InitTempo == page \in {"home", "practice"} /\ InitState
SpecTempo == InitTempo /\ [][NextTempo]_vars

\* The pitch detector, in its two versions.
InitPitch == page \in {"pitch", "pitchloop"} /\ InitState
SpecPitch == InitPitch /\ [][NextPitch]_vars

\* The onset detector.
InitOnset == page = "rhythm" /\ InitState
SpecOnset == InitOnset /\ [][NextRhythm]_vars

\* The onset detector fed by the alternating stream; the stream goes on.
NextStream ==
  \/ AlternatingFrame
  \/ SetRecordingProp
  \/ SetPlayingProp
  \/ SetTempoProp
  \/ \E lag \in EpochLags : SetMetronomeStartTime(lag)
InitStream == page = "rhythm" /\ InitState
SpecStream == InitStream /\ [][NextStream]_vars /\ WF_vars(AlternatingFrame)

(***************************************************************************)
(* Claims.                                                                 *)
(***************************************************************************)
AllOnBeat(h) == \A i \in 1..Len(h) : h[i]

\* C2: the rolling performance window is a bounded FIFO: its length never
\* exceeds its capacity (16) and it always holds the most recent
\* min(n, capacity) values pushed since it was last cleared, in push order;
\* the same holds of useBoundedArray with its maxLength.
C2_WindowIsBoundedFifo ==
  /\ Len(performanceHistory) <= PERFORMANCE_HISTORY_LENGTH
  /\ performanceHistory = LastN(pushLog, PERFORMANCE_HISTORY_LENGTH)
  /\ Len(boundedArr) <= BoundedMaxLength
  /\ boundedArr = LastN(boundedLog, BoundedMaxLength)

\* a push beyond capacity has evicted an off-beat entry from a full window
C2_Witness ==
  /\ Len(pushLog) > PERFORMANCE_HISTORY_LENGTH
  /\ ~pushLog[1]
  /\ AllOnBeat(performanceHistory)
  /\ Len(performanceHistory) = PERFORMANCE_HISTORY_LENGTH

\* C3 (as claimed): with the controller enabled and the window all on-beat
\* at full capacity, an evaluation strictly increases the tempo while it is
\* below target + 10, and the tempo always stays within target - 10 and
\* target + 10.
C3_AllOnBeatIncreasesToCeiling ==
  /\ [][ ( /\ AdaptiveTempoEffect
           /\ adaptiveTempoEnabled
           /\ Len(performanceHistory) = PERFORMANCE_HISTORY_LENGTH
           /\ AllOnBeat(performanceHistory)
           /\ actualTempo < currentTargetTempo + TargetBand )
         => actualTempo' > actualTempo ]_vars
  /\ [](/\ actualTempo <= currentTargetTempo + TargetBand
        /\ actualTempo >= currentTargetTempo - TargetBand)

\* C4: switching the adaptive controller off empties the window and resets
\* the controller's tempo and the tempo delivered to the scheduler to the
\* base tempo, in the same step.
C4_DisableResets ==
  [][ lastOp'.op = "toggleOff"
      => /\ ~adaptiveTempoEnabled'
         /\ performanceHistory' = <<>>
         /\ actualTempo' = tempo'
         /\ currentTargetTempo' = tempo'
         /\ metronomeTempo' = tempo' ]_vars

\* the controller has been switched off after its own steps had moved the
\* tempo away from the base tempo (no tempo button or slider was touched)
C4_Witness ==
  /\ lastOp.op = "toggleOff"
  /\ tempoInputs = 0
  /\ lastOp.actualBefore # tempo
  /\ metronomeTempo = tempo

\* C5 (as claimed): an adaptive step, the reset on disable and the reset on
\* End Session each deliver the controller's new tempo to the scheduler.
C5_EveryChangeReachesScheduler ==
  [][ ( /\ lastOp'.op \in {"adaptive", "toggleOff", "endSession"}
        /\ actualTempo' # actualTempo )
      => metronomeTempo' = actualTempo' ]_vars

InRange(t) == t >= MinTempo /\ t <= MaxTempo

\* C1: every tempo the program holds (the base tempo, the tempo delivered to
\* the scheduler, the controller's actual and target tempo, and the tempo of
\* the metronome context) is within [40, 240] in every reachable state,
\* whatever the buttons, the slider, handleStart and the adaptive
\* controllers do.
C1_TempoInRange ==
  /\ InRange(tempo)
  /\ InRange(metronomeTempo)
  /\ InRange(actualTempo)
  /\ InRange(currentTargetTempo)
  /\ InRange(ctxTempo)

\* the controller evaluated a poor window with the tempo at the lower limit
\* of the range and left it there
C1_Witness ==
  /\ adaptiveTempoEnabled
  /\ lastOp.op = "adaptive"
  /\ actualTempo = MinTempo
  /\ metronomeTempo = MinTempo
  /\ Len(performanceHistory) * 2 >= PERFORMANCE_HISTORY_LENGTH
  /\ ~AccuracyAtLeast(performanceHistory, accuracyThresholdDecrease)

\* C6 (as claimed): a playback run, from play to the next stop, emits its
\* start notification (setStartEpoch / onMetronomeStart) at most once,
\* whatever scheduler ticks and tempo changes happen during the run.
C6_OneEpochPerRun == run.notices <= 1

\* C7 (as claimed): in every state where the metronome is not playing the
\* shared epoch is cleared and no scheduler tick is pending.
C7_StopClearsEpoch ==
  ~isPlaying => (startEpoch = Null /\ ~schedulerTimerRef)

\* C8 (as claimed): a tempo change while the metronome is playing leaves
\* the instant of the next beat and the beat index as they were.
C8_TempoChangeKeepsPhase ==
  [][ (isPlaying /\ isPlaying' /\ schedulerTimerRef /\ ctxTempo' # ctxTempo)
      => /\ schedulerTimerRef'
         /\ nextNoteTimeRef' * ctxTempo = nextNoteTimeRef * ctxTempo'
         /\ audioLoopBeatRef' = audioLoopBeatRef ]_vars

\* C9 (as claimed): in a run whose tempo stayed constant, the k-th beat
\* committed (k = 0, 1, ...) is scheduled at exactly the time of the run's
\* first beat plus k beat intervals, whenever the ticks happen.
C9_BeatsOnGrid ==
  (run.beats > 0 /\ run.constTempo)
    => run.lastBeat = run.firstBeat + (run.beats - 1) * MsPerMinute

LastOnset == IF onsetLog = <<>> THEN Null ELSE onsetLog[Len(onsetLog)]

\* C10: a candidate onset less than 100 ms after the last accepted onset is
\* suppressed, a candidate more than 100 ms after it (or with no accepted
\* onset before it) is accepted, and no two accepted onsets are closer than
\* 100 ms.
C10_Debounce ==
  /\ [][ candidateLog' # candidateLog
         => /\ (LastOnset # Null /\ now' - LastOnset < RefractoryMs)
                 => onsetLog' = onsetLog
            /\ (LastOnset = Null \/ now' - LastOnset > RefractoryMs)
                 => onsetLog' = Append(onsetLog, now') ]_vars
  /\ [](\A i \in 1..(Len(onsetLog) - 1) :
          onsetLog[i + 1] - onsetLog[i] >= RefractoryMs)

\* of three candidates, the one 50 ms after the first accepted onset was
\* suppressed and the one 150 ms after it was accepted
C10_Witness ==
  /\ Len(onsetLog) = 2
  /\ onsetLog[2] - onsetLog[1] = RefractoryMs + SampleIntervalMs
  /\ \E i \in 1..Len(candidateLog) :
       candidateLog[i] - onsetLog[1] = SampleIntervalMs

\* the deviation of the event e from its nearest expected beat, negative
\* before the beat, in ms multiplied by the tempo
NearestBeatDeviation(e) ==
  LET x == e.timestamp * e.tempo
      nearest == (2 * x + MsPerMinute) \div (2 * MsPerMinute)
  IN  x - nearest * MsPerMinute

Abs(x) == IF x < 0 THEN 0 - x ELSE x

\* C11: the deviation of every classified onset is signed relative to the
\* nearest expected beat (d ms before the beat: -d, d ms after: +d) and the
\* onset is on-beat when that deviation is within 25% of the beat interval;
\* an onset 740 ms after the epoch at tempo 80 has deviation -10 ms and is
\* on-beat.
C11_DeviationSigned ==
  \A i \in 1..Len(rhythmEvents) :
    LET e == rhythmEvents[i]
    IN  /\ e.deviation = NearestBeatDeviation(e)
        /\ e.isOnBeat = (ToleranceDivisor * Abs(NearestBeatDeviation(e)) <= MsPerMinute)
        /\ (e.tempo = 80 /\ e.timestamp = 740) =>
             (e.deviation = (0 - 10) * 80 /\ e.isOnBeat)

\* C12: while the metronome start time is null the rhythm analyzer matches
\* no beat: whatever frames arrive, no onset is handed to analyzeOnset, no
\* rhythm event is emitted, the beat history stays empty and the score
\* stays 0.
C12_UnanchoredNoMatching ==
  metronomeStartTime = Null =>
    /\ onsetLog = <<>>
    /\ rhythmEvents = <<>>
    /\ beatHistory = <<>>
    /\ rhythmScore = 0

\* a loud frame, an onset candidate, has arrived while recording and playing
\* without an epoch
C12_Witness ==
  /\ metronomeStartTime = Null
  /\ isRecordingProp /\ isPlayingProp
  /\ framesSeen > 1
  /\ audioRms # Null /\ IsCandidate(audioRms)
  /\ now - lastProcessedTime >= ThrottleMs

\* C13: while playback stays stopped no dependent component produces a new
\* event: the rhythm analyzer hands no onset to analyzeOnset and emits no
\* rhythm event, and no sample processed by the practice page issues an
\* adaptive tempo change.
C13_StopHaltsEvents ==
  [][/\ (~isPlayingProp /\ ~isPlayingProp') =>
          (rhythmEvents' = rhythmEvents /\ onsetLog' = onsetLog)
     /\ (stage = "running" /\ ~isPlaying /\ ~isPlaying' /\ samplesTaken' # samplesTaken) =>
          ctxTempo' = ctxTempo]_vars

\* C14: every onset is classified with the epoch and the beat interval that
\* were in effect together: the tempo behind the beat interval used for an
\* event is the tempo at which the scheduler established the epoch used.
C14_EpochAndIntervalPaired ==
  \A i \in 1..Len(rhythmEvents) :
    rhythmEvents[i].tempo = rhythmEvents[i].epochTempo

\* C15: a silent frame (RMS at or below the silence floor) leaves both
\* sliding buffers empty and the detected sample null, however many silent
\* frames follow, and the last sample reported is no note; the first note
\* accepted after silence is computed from its frame alone.
C15_SilenceClearsHistory ==
  [][pitchFrames' # pitchFrames =>
       /\ ~HasSignal(lastFrame') =>
            /\ frequencyBuffer' = <<>> /\ noteBuffer' = <<>>
            /\ detectedNote' = "--" /\ detectedFrequency' = Null
            /\ lastPitchEvent' \in {NoPitchEvent, NullPitchEvent}
       /\ (lastFrame # NoFrame /\ ~HasSignal(lastFrame) /\ HasSignal(lastFrame')
            /\ PitchAccepted(pitchImpl, lastFrame')) =>
            /\ detectedFrequency' = lastFrame'.pitch
            /\ detectedNote' = getNote(lastFrame'.pitch).note
            /\ frequencyBuffer' = <<lastFrame'.pitch>>]_vars

\* C16: a tempo outside [40, 240] asked of a tempo control of the metronome
\* or of the session start is rejected: the tempo stays as it was (the
\* program has no state that records a validation failure; the formula
\* states the part of the rejection that shows in the state).
C16_OutOfRangeRejected ==
  [][((tempoInputs' # tempoInputs \/ sessions' # sessions) /\ ~InRange(tempoRequest')) =>
       ctxTempo' = ctxTempo]_vars

\* recording and playing with an established epoch, the props settled, the
\* stream about to begin
StreamReady ==
  /\ isRecordingProp /\ isPlayingProp
  /\ metronomeStartTime # Null
  /\ propChanges = MaxPropChanges
  /\ framesSeen = 0

C18_OnsetPushesWindow ==
  [][(eventsDelivered' = eventsDelivered + 1 /\ isRecording /\ currentSession)
       => performanceHistory' =
            pushPerformance(performanceHistory, latestRhythmEvent'.isOnBeat)]_vars

\* C19: the adaptive controller issues a tempo change only in the Active
\* state: an evaluation of the adaptive tempo effect changes the tempo
\* (actualTempo, and with it the metronome's tempo) only while adaptive
\* tempo is enabled, the session is recording and the window holds at
\* least 8 of its 16 entries.
C19_ChangeOnlyWhenActive ==
  [][(lastOp'.op = "adaptive"
        /\ (actualTempo' # actualTempo \/ metronomeTempo' # metronomeTempo))
       => /\ adaptiveTempoEnabled
          /\ isRecording
          /\ 2 * Len(performanceHistory) >= PERFORMANCE_HISTORY_LENGTH]_vars

\* an evaluation has just changed the tempo with the window at exactly half
\* its capacity
C19_Witness ==
  /\ lastOp.op = "adaptive"
  /\ actualTempo # lastOp.actualBefore
  /\ 2 * Len(performanceHistory) = PERFORMANCE_HISTORY_LENGTH

\* the step the asymmetric rule prescribes for a window, a tempo and a
\* target: the ceiling is target + 10 and the floor target - 10, both within
\* the global range
PrescribedStep(history, actual, target) ==
  LET ceiling == Min(target + TargetBand, MaxTempo)
      floor == Max(target - TargetBand, MinTempo)
      onBeatCount == onTimeCount(history)
      windowLength == Len(history)
  IN  IF 100 * onBeatCount >= accuracyThresholdIncrease * windowLength
         /\ actual < ceiling
      THEN increaseStep
      ELSE IF 100 * onBeatCount < accuracyThresholdDecrease * windowLength
              /\ actual > floor
      THEN 0 - decreaseStep
      ELSE 0

\* C20: one evaluation of the controller in the Active state changes the
\* tempo by the asymmetric step rule: +1 BPM if accuracy >= 0.85 and the
\* tempo is below the ceiling, -2 BPM if accuracy < 0.65 and the tempo is
\* above the floor, and no change otherwise.
C20_AsymmetricStep ==
  [][(lastOp'.op = "adaptive"
        /\ adaptiveTempoEnabled /\ isRecording
        /\ 2 * Len(performanceHistory) >= PERFORMANCE_HISTORY_LENGTH)
       => actualTempo' = actualTempo
            + PrescribedStep(performanceHistory, actualTempo, currentTargetTempo)]_vars

\* C21: a scheduler tick commits a beat only if the audio clock has reached
\* nextBeatTime; the beat is committed at exactly nextBeatTime, nextBeatTime
\* then advances by exactly one beat interval and the beat index by one
\* modulo beatsPerBar, so the index stays in [0, beatsPerBar) and the
\* committed beat times of a run are strictly increasing.
C21_BeatCommit ==
  [][run'.beats = run.beats + 1
       => /\ currentTime * ctxTempo >= nextNoteTimeRef
          /\ run'.lastBeat = nextNoteTimeRef
          /\ nextNoteTimeRef' = nextNoteTimeRef + MsPerMinute
          /\ audioLoopBeatRef' = (audioLoopBeatRef + 1) % BeatsPerBar
          /\ audioLoopBeatRef' \in 0 .. (BeatsPerBar - 1)
          /\ (run.lastBeat # Null /\ run.constTempo)
                => run.lastBeat < nextNoteTimeRef]_vars

RECURSIVE SumAbsDeviation(_)
SumAbsDeviation(hist) ==
  IF hist = <<>> THEN 0 ELSE Abs(Head(hist).deviation) + SumAbsDeviation(Tail(hist))

\* round(0.6 x onBeatRatio x 100 + 0.4 x deviationScore) over the history
\* hist, with deviationScore = 100 - min(100, 100 x average absolute
\* deviation / half a beat interval); the deviations are in ms multiplied by
\* the tempo, in which unit a beat interval is MsPerMinute
BlendedScore(hist) ==
  LET n == Len(hist)
      onBeatCount == Cardinality({i \in 1..n : hist[i].isOnBeat})
      capped == Min(n * MsPerMinute, 2 * SumAbsDeviation(hist))
      num == 60 * onBeatCount * MsPerMinute + 40 * n * MsPerMinute - 40 * capped
      den == n * MsPerMinute
  IN  (2 * num + den) \div (2 * den)

\* C23: the rhythm score is round(0.6 x onBeatRatio x 100 + 0.4 x
\* deviationScore) over a bounded history of the most recent K onsets, where
\* deviationScore is 100 at zero average absolute deviation and 0 at half a
\* beat interval or more; the history never exceeds K entries and the score
\* is always within [0, 100].
C23_BlendedScore ==
  /\ Len(beatHistory) <= BeatHistoryLength
  /\ rhythmScore \in 0 .. Percent
  /\ Len(beatHistory) > 0 => rhythmScore = BlendedScore(beatHistory)

\* the gate of C24 on a frame: RMS above the silence floor, clarity above the
\* confidence floor of the detector, frequency strictly inside 30-5000 Hz
PassesGate(frame) ==
  /\ frame.rms > SilenceFloor
  /\ frame.clarity > ClarityThreshold(pitchImpl)
  /\ frame.pitch > MinPitch
  /\ frame.pitch < MaxPitch

\* C24: a pitch frame is accepted (enters the sliding buffers) only if it
\* passes the gate, and a non-silent frame that fails the clarity or range
\* gate is no detection: no pitch sample is emitted, both sliding buffers
\* and the last reported note stay as they were.
C24_GatedAcceptance ==
  [][pitchFrames' = pitchFrames + 1
       => /\ (frequencyBuffer' # frequencyBuffer /\ frequencyBuffer' # <<>>)
               => PassesGate(lastFrame')
          /\ (lastFrame'.rms > SilenceFloor /\ ~PassesGate(lastFrame'))
               => UNCHANGED <<frequencyBuffer, noteBuffer, detectedNote,
                              detectedFrequency, centsDeviation, lastPitchEvent>>]_vars

\* a loud frame at the upper end of the range has just been dropped while a
\* note was being reported
C24_Witness ==
  /\ lastFrame # NoFrame
  /\ lastFrame.rms > SilenceFloor
  /\ lastFrame.pitch = MaxPitch
  /\ Len(frequencyBuffer) > 0
  /\ detectedNote # "--"

\* x is a median of buffer: an entry with at most half of the entries
\* below it and at most half above it
IsMedianOf(x, buffer) ==
  LET n == Len(buffer)
  IN  /\ \E i \in 1..n : buffer[i] = x
      /\ 2 * Cardinality({i \in 1..n : buffer[i] < x}) <= n
      /\ 2 * Cardinality({i \in 1..n : buffer[i] > x}) <= n

\* C25: the frequency buffer holds at most 5 accepted frequencies, dropping
\* the oldest first, and the frequency reported for each accepted frame is
\* the median of the buffer's contents after that frame (for an even number
\* of entries one of the two middle values).
C25_MedianOfFive ==
  /\ [](Len(frequencyBuffer) <= 5)
  /\ [][(pitchFrames' = pitchFrames + 1 /\ PassesGate(lastFrame'))
         => /\ frequencyBuffer' =
                 (IF Len(frequencyBuffer) = 5 THEN Tail(frequencyBuffer)
                                              ELSE frequencyBuffer)
                   \o <<lastFrame'.pitch>>
            /\ IsMedianOf(detectedFrequency', frequencyBuffer')
            /\ lastPitchEvent'.frequency = detectedFrequency']_vars

\* the sixth accepted frame has pushed the oldest frequency out and the
\* median reported is neither the newest nor the smallest nor the greatest
\* entry
C25_Witness ==
  /\ pitchFrames = 6
  /\ Len(frequencyBuffer) = 5
  /\ lastFrame # NoFrame
  /\ PassesGate(lastFrame)
  /\ detectedFrequency = 330
  /\ lastFrame.pitch # 330
  /\ \E i, j \in 1..5 : frequencyBuffer[i] < 330 /\ frequencyBuffer[j] > 330

\* how often the name occurs in the note buffer
Occurrences(name, buffer) == Cardinality({i \in 1..Len(buffer) : buffer[i] = name})

\* C26: the note buffer holds at most the last 5 mapped note names, and the
\* note reported for each accepted frame is a most frequent name of that
\* buffer, not the most recent one: a single differing frame inside a run
\* of an established note never changes the reported note.
C26_ModeVoting ==
  /\ [](Len(noteBuffer) <= 5)
  /\ [][(pitchFrames' = pitchFrames + 1 /\ PassesGate(lastFrame'))
         => /\ noteBuffer' =
                 (IF Len(noteBuffer) = 5 THEN Tail(noteBuffer) ELSE noteBuffer)
                   \o <<getNote(detectedFrequency').note>>
            /\ \A i \in 1..Len(noteBuffer') :
                 Occurrences(noteBuffer'[i], noteBuffer')
                   <= Occurrences(detectedNote', noteBuffer')
            /\ Occurrences(detectedNote', noteBuffer') > 0
            /\ lastPitchEvent'.note = detectedNote'
            /\ (/\ noteBuffer # <<>>
                /\ \A i \in 1..Len(noteBuffer) : noteBuffer[i] = detectedNote
                /\ getNote(lastFrame'.pitch).note # detectedNote)
                 => detectedNote' = detectedNote]_vars

\* a differing name has just entered a buffer of an established note and
\* the reported note is still the established one
C26_Witness ==
  /\ Len(noteBuffer) >= 3
  /\ lastFrame # NoFrame
  /\ PassesGate(lastFrame)
  /\ noteBuffer[Len(noteBuffer)] # detectedNote
  /\ \A i \in 1..(Len(noteBuffer) - 1) : noteBuffer[i] = detectedNote

\* C27: the adaptive controller makes at most one tempo step per entry
\* pushed into the performance window: once an evaluation has changed the
\* tempo, the evaluations that follow it with the window unchanged (the
\* re-evaluations its own tempo change triggers among them) leave the tempo
\* alone.
C27_OneStepPerEntry ==
  [][(/\ lastOp.op = "adaptive"
      /\ actualTempo # lastOp.actualBefore
      /\ lastOp'.op = "adaptive"
      /\ performanceHistory' = performanceHistory)
       => actualTempo' = actualTempo]_vars

\* C28: at most one scheduler loop is armed at any time: whatever the
\* interleaving of play, stop, tempo changes, audio context start and
\* scheduler ticks, at most one scheduler callback is pending, and none
\* while the metronome is stopped or unmounted.
C28_OneSchedulerLoop ==
  /\ strayFrames = 0
  /\ (~isPlaying \/ stage # "running") => ~schedulerTimerRef

\* the scheduler is armed after beats were committed and a tempo change
\* restarted it
C28_Witness ==
  /\ schedulerTimerRef
  /\ isPlaying
  /\ audioContext
  /\ tempoInputs > 0
  /\ ~run.constTempo
  /\ run.beats > 0

\* C29: every pitch sample reported is self-consistent: its note is the
\* silence marker or a well-formed note name, never an out-of-range
\* placeholder, and its cents deviation is the deviation of the reported
\* frequency from that same reported note.
C29_SampleSelfConsistent ==
  \/ lastPitchEvent = NoPitchEvent
  \/ lastPitchEvent = NullPitchEvent
  \/ /\ lastPitchEvent.note \notin {"Below audible range", "Above audible range"}
     /\ lastPitchEvent.note = getNote(lastPitchEvent.frequency).note
     /\ lastPitchEvent.cents = getNote(lastPitchEvent.frequency).cents

\* C30: while the practice session is paused the metronome commits no
\* beats, and the controls bar's indication isMetronomePlaying && !paused
\* agrees with whether the scheduler is armed to commit beats (once the
\* audio context exists).
C30_PauseSilencesMetronome ==
  /\ [][(paused /\ paused') => run'.beats = run.beats]_vars
  /\ []((stage = "running" /\ audioContext)
          => (schedulerTimerRef <=> (isPlaying /\ ~paused)))
====
